---- MODULE Spec2Model ----
(***************************************************************************)
(* Verification model of VAST's ingest / ID pipeline                       *)
(* (libvast/src/system/importer.cpp), of its bit sequences and bitmap      *)
(* algorithms (vast/bits.hpp, vast/bitmap_algorithms.hpp) and of the       *)
(* validation of query ASTs (src/vast/detail/ast/query.cc).                *)
(*                                                                         *)
(* The algorithms are pure functions: they are operators, and variable     *)
(* calc holds one call (arguments, then result).  Bitmap classes, their    *)
(* bit_range and word<T> are outside the sources at hand; a bitmap is the  *)
(* sequence of bits<T> blocks its bit_range yields, and appends follow the *)
(* documented representation.                                              *)
(*                                                                         *)
(* Importers are CAF actors: one handler runs at a time, a handler is one  *)
(* atomic step, and a message the current behaviour does not match stays   *)
(* in the mailbox (set_default_handler(skip)).  down_msg and exit_msg are  *)
(* dispatched to their special handlers in every behaviour.                *)
(*                                                                         *)
(* Scaling.  event_id, count and size_t are 64-bit unsigned in the build;  *)
(* here they are IdWidth bits wide and all arithmetic on them is taken     *)
(* modulo 2^IdWidth.  The meta store's counter is explored up to, and not  *)
(* beyond, its own wrap-around.  File-system operations are taken to       *)
(* succeed (mkdir and open never fail).                                    *)
(*                                                                         *)
(* VAST_ASSERT is a build option (VAST_ENABLE_ASSERTIONS): with it a       *)
(* failing assertion aborts the process, without it execution continues.   *)
(* Both builds are modelled: variable assertions is the build option, and  *)
(* it is left open ("any") until the first assertion fails.  The clock is  *)
(* an input: each replenish reads whether less than ten seconds have       *)
(* passed since last_replenish.                                            *)
(***************************************************************************)
EXTENDS Integers, Sequences, FiniteSets, TLC

\* ------------------------------------------------------------------ bounds
IdWidth == 4
MaxEvents == 3
MaxBatch == 2
MaxStarts == 2
\* width of a machine word of the bit engine, largest bitmap size
WordWidth == 2
MaxBits == 4
\* largest size of the bitmaps combined three at a time
MaxBits3 == 3
\* largest number of clauses after the first one of a query
MaxRest == 1

Modulus == 2^IdWidth
\* the largest event ID (the all-ones value is the invalid ID)
max_event_id == Modulus - 2

Lanes == {1, 2}
\* batch_size arguments the importer is spawned with
BatchSizes == {2, Modulus - 4}
\* amounts by which other clients of the meta store advance key "id"
ForeignAmounts == {Modulus - 3}
\* data{none}: the reply of a store that holds no value under the key
NoneData == -1
\* a moved-from event object
Husk == 0

\* ------------------------------------------------- persisted state (files)
\* operator<< of an unsigned integer: its decimal digits
RECURSIVE print_count(_)
print_count(n) ==
  IF n < 10 THEN <<n>> ELSE Append(print_count(n \div 10), n % 10)

IsDigit(c) == c \in 0..9

\* value of the longest prefix of digits of s, reading on from acc
RECURSIVE parse_digits(_, _)
parse_digits(s, acc) ==
  IF s = <<>> \/ ~IsDigit(Head(s)) THEN acc
  ELSE parse_digits(Tail(s), acc * 10 + Head(s))

\* operator>> into an unsigned integer: a failed extraction stores 0, an
\* overflowing one the largest value
parse_count(s) ==
  IF s = <<>> \/ ~IsDigit(Head(s)) THEN 0
  ELSE LET v == parse_digits(s, 0)
       IN IF v > Modulus - 1 THEN Modulus - 1 ELSE v

NoDir == [exists |-> FALSE, available |-> <<>>, next |-> <<>>]

\* importer_state as default-constructed
importer_state ==
  [batch_size |-> 0, next |-> 0, available |-> 0, remainder |-> <<>>,
   meta_store |-> FALSE]

\* read_state: st with (available, next) loaded from directory d
read_state(st, d) ==
  IF ~d.exists THEN st
  ELSE [st EXCEPT !.available = parse_count(d.available),
                  !.next = parse_count(d.next)]

\* a write_state that persists available only
write_state_no_next(st, d) ==
  IF st.next = 0 /\ st.available = 0 THEN d
  ELSE [exists |-> TRUE, available |-> print_count(st.available),
        next |-> d.next]

\* write_state: directory d after saving st
write_state(st, d) ==
  IF st.next = 0 /\ st.available = 0 THEN d
  ELSE [exists |-> TRUE, available |-> print_count(st.available),
        next |-> print_count(st.next)]

\* ---------------------------------------------------------------- ship
\* a ship that stamps every event of the batch with the same ID
stamp_no_increment(batch, next) ==
  [j \in 1..Len(batch) |-> [ev |-> batch[j], id |-> next]]

\* for (auto& e : batch) e.id(self->state.next++)
stamp(batch, next) ==
  [j \in 1..Len(batch) |-> [ev |-> batch[j], id |-> (next + j - 1) % Modulus]]

\* the importer state after ship(self, batch)
ship_state(st, batch) ==
  [st EXCEPT !.next = (st.next + Len(batch)) % Modulus,
             !.available = (st.available - Len(batch) + Modulus) % Modulus]

\* a ship that sends the index pool a message without the batch
index_message_empty(msg) == <<>>

\* what ship sends to the index pool: the message sent to the archive pool
index_message(msg) == msg

\* ------------------------------------------------------------- replenish
\* available < batch_size * 0.1
running_low(available, batch_size) == available * 10 < batch_size

\* batch_size as adjusted by replenish (doubling, then growing to the
\* buffered remainder); soon: now - last_replenish < 10s
adjusted_batch_size(st, soon) ==
  LET doubled == IF soon THEN (st.batch_size * 2) % Modulus
                 ELSE st.batch_size
  IN IF Len(st.remainder) > doubled THEN Len(st.remainder) ELSE doubled

\* VAST_ASSERT(max_event_id - self->state.next >= self->state.batch_size)
replenish_assertion(next, batch_size) ==
  (max_event_id - next + Modulus) % Modulus >= batch_size

\* a reply handler that leaves next as it is
reply_next_kept(old, next) == next

\* is<none>(old) ? count{0} : get<count>(old), assigned to next
reply_next(old, next) == IF old = NoneData THEN 0 ELSE old

\* ------------------------------------------------------------------ state
VARIABLES
  assertions,   \* VAST_ENABLE_ASSERTIONS of the build: "any", "on" or "off"
  active,       \* the lanes (importer directories) in use
  status,       \* per lane: "off", "running", "awaiting" (reply behaviour), "down"
  ends,         \* per lane: how each importer started on it ended
  state,        \* per lane: self->state
  awaiting_n,   \* per lane: n captured by the reply behaviour
  mailbox,      \* per lane: the actor's mailbox, in arrival order
  starts,       \* per lane: number of importers started on the directory
  disk,         \* per lane: dir/available and dir/next
  store_up,     \* the meta store is alive
  store_id,     \* the meta store's value under key "id"
  store_queue,  \* add requests the meta store has not handled yet
  archive,      \* per lane: batches sent to the archive pool
  index,        \* per lane: batches sent to the index pool
  signals,      \* per lane: control messages sent to the two pools
  stamped,      \* log of every stamping: lane, start, event, id
  granted,      \* per lane: ranges <<x, n>> the meta store handed out to it
  last,         \* per lane: the handler that ran last and what it found
  n_events,     \* number of events created so far
  down_seen,    \* per lane: the importer has handled the meta store's DOWN
  calc,         \* a call of a pure function: its arguments and its result
  tracker       \* the tracker: its registry, its topology and its mailbox

vars == <<assertions, active, status, ends, state, awaiting_n, mailbox,
          starts, disk, store_up, store_id, store_queue, archive, index,
          signals, stamped, granted, last, n_events, down_seen, calc,
          tracker>>

\* late (for the claims): the message was sent to an importer that had
\* already handled the DOWN of the meta store
Msg(t, evs, old) == [type |-> t, evs |-> evs, old |-> old, late |-> FALSE]

NoLast ==
  [op |-> "none", path |-> "none", pre |-> importer_state, batch |-> <<>>,
   sent |-> <<>>, old |-> NoneData, n |-> 0, requested |-> FALSE,
   soon |-> FALSE, late |-> FALSE]

Alive(i) == status[i] \in {"running", "awaiting"}

\* an importer whose reply behaviour takes event batches as well
Accepts_batches(s, m) ==
  \/ m.type \in {"down", "exit"}
  \/ s \in {"running", "awaiting"} /\ m.type \in {"events", "meta_store"}
  \/ s = "awaiting" /\ m.type = "data"

\* the messages the current behaviour (or a special handler) takes
Accepts(s, m) ==
  \/ m.type \in {"down", "exit"}
  \/ s = "running" /\ m.type \in {"events", "meta_store"}
  \/ s = "awaiting" /\ m.type = "data"

\* position of the message handled next; 0 if every message is skipped
FirstAccepted(i) ==
  LET ok == {j \in 1..Len(mailbox[i]) : Accepts(status[i], mailbox[i][j])}
  IN IF ok = {} THEN 0 ELSE CHOOSE j \in ok : \A l \in ok : j <= l

RemoveAt(s, j) == SubSeq(s, 1, j - 1) \o SubSeq(s, j + 1, Len(s))

Handles(i, t) ==
  /\ Alive(i)
  /\ FirstAccepted(i) > 0
  /\ mailbox[i][FirstAccepted(i)].type = t

Consumed(i) == RemoveAt(mailbox[i], FirstAccepted(i))

Log(i, msg) ==
  [j \in 1..Len(msg) |->
     [lane |-> i, start |-> starts[i], ev |-> msg[j].ev, id |-> msg[j].id]]

InitCommon ==
  /\ assertions = "any"
  /\ status = [i \in Lanes |-> "off"]
  /\ ends = [i \in Lanes |-> <<>>]
  /\ state = [i \in Lanes |-> importer_state]
  /\ awaiting_n = [i \in Lanes |-> 0]
  /\ mailbox = [i \in Lanes |-> <<>>]
  /\ starts = [i \in Lanes |-> 0]
  /\ disk = [i \in Lanes |-> NoDir]
  /\ store_up = TRUE
  /\ store_id = NoneData
  /\ store_queue = <<>>
  /\ archive = [i \in Lanes |-> <<>>]
  /\ index = [i \in Lanes |-> <<>>]
  /\ signals = [i \in Lanes |-> [archive |-> <<>>, index |-> <<>>]]
  /\ stamped = <<>>
  /\ granted = [i \in Lanes |-> {}]
  /\ last = [i \in Lanes |-> NoLast]
  /\ n_events = 0
  /\ down_seen = [i \in Lanes |-> FALSE]

\* no call of a pure function
NoCalc == [fn |-> "none"]

\* the actor handle that refers to no actor
invalid_actor == 0

\* a tracker as constructed: actors_ and topology_ (a multimap, kept as the
\* sequence of its pairs) are empty; dead, downs and adds are its
\* surroundings: the handles whose actors have terminated, the down_msg
\* sources in its mailbox, and the add messages it has sent, each as the pair
\* of the handle it went to and the handle it names
NoTracker ==
  [actors_ |-> [name \in {} |-> invalid_actor], topology_ |-> <<>>,
   dead |-> {}, downs |-> <<>>, adds |-> {},
   last |-> [op |-> "none"]]

Init == InitCommon /\ active = {1} /\ calc = NoCalc /\ tracker = NoTracker

\* --------------------------------------------------------------- importer
\* the actor of lane i terminates for reason why, its state being st
Terminate(i, why, st) ==
  /\ status' = [status EXCEPT ![i] = "down"]
  /\ ends' = [ends EXCEPT ![i] =
       Append(@, [why |-> why, next |-> st.next, available |-> st.available])]
  /\ mailbox' = [mailbox EXCEPT ![i] = <<>>]

\* spawn of importer(self, dir, batch_size) on the directory of lane i
Start(i, bs) ==
  /\ i \in active
  /\ status[i] \in {"off", "down"}
  /\ starts[i] < MaxStarts
  /\ state' = [state EXCEPT ![i] =
       read_state([importer_state EXCEPT !.batch_size = bs], disk[i])]
  /\ status' = [status EXCEPT ![i] = "running"]
  /\ UNCHANGED ends
  /\ mailbox' = [mailbox EXCEPT ![i] = <<>>]
  /\ starts' = [starts EXCEPT ![i] = @ + 1]
  /\ awaiting_n' = [awaiting_n EXCEPT ![i] = 0]
  /\ last' = [last EXCEPT ![i] =
       [NoLast EXCEPT !.op = "start", !.pre = state[i]]]
  /\ down_seen' = [down_seen EXCEPT ![i] = FALSE]
  /\ UNCHANGED <<assertions, active, disk, store_up, store_id, store_queue,
                 archive, index, signals, stamped, granted, n_events>>

\* [=](meta_store_type const& ms)
HandleMetaStore(i) ==
  /\ Handles(i, "meta_store")
  /\ state' = [state EXCEPT ![i].meta_store = TRUE]
  \* monitoring an actor that is already dead yields its down_msg at once
  /\ mailbox' = [mailbox EXCEPT ![i] =
       IF store_up THEN Consumed(i)
       ELSE Append(Consumed(i), Msg("down", <<>>, NoneData))]
  /\ last' = [last EXCEPT ![i] =
       [NoLast EXCEPT !.op = "meta_store", !.pre = state[i]]]
  /\ UNCHANGED <<assertions, active, status, ends, awaiting_n, starts, disk,
                 store_up, store_id, store_queue, archive, index, signals,
                 stamped, granted, n_events,
                 down_seen>>

\* set_down_handler
HandleDown(i) ==
  /\ Handles(i, "down")
  /\ state' = [state EXCEPT ![i].meta_store = FALSE]
  /\ mailbox' = [mailbox EXCEPT ![i] = Consumed(i)]
  /\ last' = [last EXCEPT ![i] =
       [NoLast EXCEPT !.op = "down", !.pre = state[i]]]
  /\ down_seen' = [down_seen EXCEPT ![i] = TRUE]
  /\ UNCHANGED <<assertions, active, status, ends, awaiting_n, starts, disk,
                 store_up, store_id, store_queue, archive, index, signals,
                 stamped, granted, n_events>>

\* set_exit_handler
HandleExit(i) ==
  /\ Handles(i, "exit")
  /\ disk' = [disk EXCEPT ![i] = write_state(state[i], disk[i])]
  /\ signals' = [signals EXCEPT
       ![i].archive = @ \o <<"delete", "exit">>,
       ![i].index = @ \o <<"delete", "exit">>]
  /\ Terminate(i, "exit", state[i])
  /\ last' = [last EXCEPT ![i] =
       [NoLast EXCEPT !.op = "exit", !.pre = state[i]]]
  /\ UNCHANGED <<assertions, active, state, awaiting_n, starts, store_up,
                 store_id, store_queue, archive, index, stamped, granted,
                 n_events,
                 down_seen>>

\* events as the handler's vector holds them once the tail beyond `keep` has
\* been moved out into the local remainder
moved_out(events, keep) ==
  [j \in 1..Len(events) |-> IF j <= keep THEN events[j] ELSE Husk]

\* an event handler that does not look at the meta store handle
batch_outcome_unchecked(st, events, build) ==
  [path |-> "whole", fate |-> "continue", st |-> ship_state(st, events),
   sent |-> <<stamp(events, st.next)>>]

\* the event handler up to the replenish decision (lines 155-173):
\* path taken, fate of the actor, state and the messages shipped
batch_outcome(st, events, build) ==
  IF ~st.meta_store THEN
    [path |-> "no_store", fate |-> "unspecified", st |-> st, sent |-> <<>>]
  ELSE IF Len(events) <= st.available THEN
    [path |-> "whole", fate |-> "continue", st |-> ship_state(st, events),
     sent |-> <<stamp(events, st.next)>>]
  ELSE IF st.available > 0 THEN
    \* ship is handed the whole vector, tail moved out, before the resize
    IF build = "on" THEN
      [path |-> "partial", fate |-> "assertion", st |-> st, sent |-> <<>>]
    ELSE
      \* all k slots are stamped and sent; available wraps around and
      \* events.resize(available) throws std::length_error
      [path |-> "partial", fate |-> "exception",
       st |-> ship_state(st, events),
       sent |-> <<stamp(moved_out(events, st.available), st.next)>>]
  ELSE
    [path |-> "buffer", fate |-> "continue",
     st |-> [st EXCEPT !.remainder = events], sent |-> <<>>]

\* running_low || !self->state.remainder.empty()
needs_replenish(st) ==
  running_low(st.available, st.batch_size) \/ st.remainder # <<>>

\* archive, index and stamped after the messages `sent` of lane i
Shipped(i, sent) ==
  /\ archive' = [archive EXCEPT ![i] = @ \o sent]
  /\ index' = [index EXCEPT ![i] =
       @ \o [j \in 1..Len(sent) |-> index_message(sent[j])]]
  /\ stamped' = stamped \o
       (IF sent = <<>> THEN <<>> ELSE Log(i, sent[1]))

\* the builds a step may turn out to run in
Builds == IF assertions = "any" THEN {"on", "off"} ELSE {assertions}

\* VAST_ASSERT(batch.size() <= self->state.available) in ship
ship_assertion(st, batch) == Len(batch) <= st.available

\* [=](std::vector<event>& events), replenish(self) included;
\* soon: the clock reads less than 10s since last_replenish
HandleBatch(i, soon, build) ==
  /\ Handles(i, "events")
  /\ build \in Builds
  /\ LET events == mailbox[i][FirstAccepted(i)].evs
         late == mailbox[i][FirstAccepted(i)].late
         out == batch_outcome(state[i], events, build)
         replenishing == out.fate = "continue" /\ needs_replenish(out.st)
         n == adjusted_batch_size(out.st, soon)
         asked == [out.st EXCEPT !.batch_size = n]
         assert_ok == replenish_assertion(asked.next, n)
         rec == [NoLast EXCEPT !.op = "events", !.path = out.path,
                               !.pre = state[i], !.batch = events,
                               !.sent = out.sent, !.n = n, !.soon = soon,
                               !.late = late]
     IN
     /\ Shipped(i, out.sent)
     /\ assertions' =
          IF out.path = "partial" \/ (replenishing /\ ~assert_ok)
          THEN build ELSE assertions
     /\ IF out.fate # "continue" THEN
          /\ Terminate(i, out.fate, out.st)
          /\ state' = [state EXCEPT ![i] = out.st]
          /\ last' = [last EXCEPT ![i] = rec]
          /\ UNCHANGED <<awaiting_n, store_queue>>
        ELSE IF ~replenishing THEN
          /\ state' = [state EXCEPT ![i] = out.st]
          /\ mailbox' = [mailbox EXCEPT ![i] = Consumed(i)]
          /\ last' = [last EXCEPT ![i] = rec]
          /\ UNCHANGED <<status, ends, awaiting_n, store_queue>>
        ELSE IF build = "on" /\ ~assert_ok THEN
          /\ Terminate(i, "assertion", asked)
          /\ state' = [state EXCEPT ![i] = asked]
          /\ last' = [last EXCEPT ![i] = rec]
          /\ UNCHANGED <<awaiting_n, store_queue>>
        ELSE
          /\ state' = [state EXCEPT ![i] = asked]
          /\ awaiting_n' = [awaiting_n EXCEPT ![i] = n]
          \* a message to a terminated actor is dropped
          /\ store_queue' =
               IF store_up
               THEN Append(store_queue,
                           [from |-> i, start |-> starts[i], n |-> n])
               ELSE store_queue
          /\ status' = [status EXCEPT ![i] = "awaiting"]
          /\ mailbox' = [mailbox EXCEPT ![i] = Consumed(i)]
          /\ last' = [last EXCEPT ![i] = [rec EXCEPT !.requested = TRUE]]
          /\ UNCHANGED ends
  /\ UNCHANGED <<active, starts, disk, store_up, store_id, signals, granted,
                 n_events,
                 down_seen>>

\* [=](const data& old), the behaviour replenish installs
HandleReply(i, build) ==
  /\ Handles(i, "data")
  /\ build \in Builds
  /\ LET old == mailbox[i][FirstAccepted(i)].old
         n == awaiting_n[i]
         got == [state[i] EXCEPT !.available = n,
                                 !.next = reply_next(old, state[i].next)]
         rem == got.remainder
         sent == IF rem = <<>> THEN <<>> ELSE <<stamp(rem, got.next)>>
         after == IF rem = <<>> THEN got
                  ELSE [ship_state(got, rem) EXCEPT !.remainder = <<>>]
         rec == [NoLast EXCEPT !.op = "reply", !.pre = state[i],
                               !.batch = rem, !.old = old, !.n = n]
     IN
     /\ assertions' = IF ship_assertion(got, rem) THEN assertions ELSE build
     /\ IF build = "on" /\ ~ship_assertion(got, rem) THEN
          /\ Terminate(i, "assertion", got)
          /\ state' = [state EXCEPT ![i] = got]
          /\ last' = [last EXCEPT ![i] = rec]
          /\ UNCHANGED <<archive, index, stamped, disk>>
        ELSE
          /\ Shipped(i, sent)
          /\ state' = [state EXCEPT ![i] = after]
          /\ disk' = [disk EXCEPT ![i] = write_state(after, disk[i])]
          /\ status' = [status EXCEPT ![i] = "running"]
          /\ mailbox' = [mailbox EXCEPT ![i] = Consumed(i)]
          /\ last' = [last EXCEPT ![i] = [rec EXCEPT !.sent = sent]]
          /\ UNCHANGED ends
  /\ UNCHANGED <<active, awaiting_n, starts, store_up, store_id, store_queue,
                 signals, granted, n_events,
                 down_seen>>

\* the process of the importer dies; no handler runs
Crash(i) ==
  /\ Alive(i)
  /\ Terminate(i, "crash", state[i])
  /\ last' = [last EXCEPT ![i] = [NoLast EXCEPT !.op = "crash",
                                                !.pre = state[i]]]
  /\ UNCHANGED <<assertions, active, state, awaiting_n, starts, disk,
                 store_up, store_id, store_queue, archive, index, signals,
                 stamped, granted, n_events,
                 down_seen>>

\* ------------------------------------------------------------ environment
Deliver(i, m) ==
  /\ Alive(i)
  /\ mailbox' = [mailbox EXCEPT ![i] = Append(@, m)]

HasMsg(i, t) == \E j \in 1..Len(mailbox[i]) : mailbox[i][j].type = t

\* a source sends a batch of k fresh events
SendEvents(i, k) ==
  /\ n_events + k <= MaxEvents
  /\ Deliver(i, [Msg("events", [j \in 1..k |-> n_events + j], NoneData)
                   EXCEPT !.late = down_seen[i] /\ ~state[i].meta_store])
  /\ n_events' = n_events + k
  /\ UNCHANGED <<assertions, active, status, ends, state, awaiting_n,
                 starts, disk, store_up, store_id, store_queue, archive,
                 index, signals, stamped, granted, last, down_seen>>

\* the node hands the importer the (live) meta store
SendMetaStore(i) ==
  /\ store_up
  /\ ~state[i].meta_store
  /\ ~HasMsg(i, "meta_store")
  /\ Deliver(i, Msg("meta_store", <<>>, NoneData))
  /\ UNCHANGED <<assertions, active, status, ends, state, awaiting_n,
                 starts, disk, store_up, store_id, store_queue, archive,
                 index, signals, stamped, granted, last, n_events,
                 down_seen>>

SendExit(i) ==
  /\ ~HasMsg(i, "exit")
  /\ Deliver(i, Msg("exit", <<>>, NoneData))
  /\ UNCHANGED <<assertions, active, status, ends, state, awaiting_n,
                 starts, disk, store_up, store_id, store_queue, archive,
                 index, signals, stamped, granted, last, n_events,
                 down_seen>>

\* ------------------------------------------------------------- meta store
Counter == IF store_id = NoneData THEN 0 ELSE store_id

\* add on key "id": atomic fetch-and-add, the reply is the prior value
StoreAdd ==
  /\ store_up
  /\ store_queue # <<>>
  /\ LET r == Head(store_queue)
     IN /\ Counter + r.n <= Modulus - 1
        /\ store_id' = Counter + r.n
        /\ granted' = [granted EXCEPT ![r.from] = @ \cup {<<Counter, r.n>>}]
        /\ mailbox' =
             IF Alive(r.from) /\ starts[r.from] = r.start
             THEN [mailbox EXCEPT ![r.from] =
                     Append(@, Msg("data", <<>>, store_id))]
             ELSE mailbox
  /\ store_queue' = Tail(store_queue)
  /\ UNCHANGED <<assertions, active, status, ends, state, awaiting_n,
                 starts, disk, store_up, archive, index, signals, stamped,
                 last, n_events,
                 down_seen>>

\* another client of the store reserves n IDs
ForeignAdd(n) ==
  /\ store_up
  /\ Counter + n <= Modulus - 1
  /\ store_id' = Counter + n
  /\ UNCHANGED <<assertions, active, status, ends, state, awaiting_n,
                 mailbox, starts, disk, store_up, store_queue, archive,
                 index, signals, stamped, granted, last, n_events,
                 down_seen>>

\* the meta store terminates; its monitors get a down_msg
StoreDown ==
  /\ store_up
  /\ store_up' = FALSE
  /\ store_queue' = <<>>
  /\ mailbox' = [i \in Lanes |->
       IF Alive(i) /\ state[i].meta_store
       THEN Append(mailbox[i], Msg("down", <<>>, NoneData))
       ELSE mailbox[i]]
  /\ UNCHANGED <<assertions, active, status, ends, state, awaiting_n,
                 starts, disk, store_id, archive, index, signals, stamped,
                 granted, last, n_events,
                 down_seen>>

\* lane i is started once
StartOnce(i, bs) == starts[i] = 0 /\ Start(i, bs)

\* one importer with its whole life cycle: crashes, exits, restarts on the
\* same directory, and the meta store going down
Next ==
  /\ UNCHANGED <<calc, tracker>>
  /\ \/ \E i \in active, bs \in BatchSizes : Start(i, bs)
     \/ \E i \in active : HandleMetaStore(i)
     \/ \E i \in active : HandleDown(i)
     \/ \E i \in active : HandleExit(i)
     \/ \E i \in active, soon \in BOOLEAN, build \in {"on", "off"} :
          HandleBatch(i, soon, build)
     \/ \E i \in active, build \in {"on", "off"} : HandleReply(i, build)
     \/ \E i \in active : Crash(i)
     \/ \E i \in active, k \in 1..MaxBatch : SendEvents(i, k)
     \/ \E i \in active : SendMetaStore(i)
     \/ \E i \in active : SendExit(i)
     \/ StoreAdd
     \/ StoreDown

Spec == Init /\ [][Next]_vars

\* several importers and other clients of one meta store, each importer
\* started once
InitCluster ==
  InitCommon /\ active = Lanes /\ calc = NoCalc /\ tracker = NoTracker

NextCluster ==
  /\ UNCHANGED <<calc, tracker>>
  /\ \/ \E i \in active, bs \in BatchSizes : StartOnce(i, bs)
     \/ \E i \in active : HandleMetaStore(i)
     \/ \E i \in active, soon \in BOOLEAN, build \in {"on", "off"} :
          HandleBatch(i, soon, build)
     \/ \E i \in active, build \in {"on", "off"} : HandleReply(i, build)
     \/ \E i \in active, k \in 1..MaxBatch : SendEvents(i, k)
     \/ \E i \in active : SendMetaStore(i)
     \/ StoreAdd
     \/ \E n \in ForeignAmounts : ForeignAdd(n)

SpecCluster == InitCluster /\ [][NextCluster]_vars

\* a source sends a batch to an importer that has its meta store registered
SendEventsRegistered(i, k) == state[i].meta_store /\ SendEvents(i, k)

\* the batch_size arguments of the importer whose progress is examined
SmallBatchSizes == {2, 4}

\* one importer, started once, whose meta store stays alive; no exit message
\* and no crash
NextLive ==
  /\ UNCHANGED <<calc, tracker>>
  /\ \/ \E i \in active, bs \in SmallBatchSizes : StartOnce(i, bs)
     \/ \E i \in active : SendMetaStore(i)
     \/ \E i \in active : HandleMetaStore(i)
     \/ \E i \in active, k \in 1..MaxBatch : SendEventsRegistered(i, k)
     \/ \E i \in active, soon \in BOOLEAN, build \in {"on", "off"} :
          HandleBatch(i, soon, build)
     \/ \E i \in active, build \in {"on", "off"} : HandleReply(i, build)
     \/ StoreAdd

\* every message in a mailbox is eventually handled if its handler stays
\* enabled, and the meta store answers every request
SpecLive ==
  /\ Init
  /\ [][NextLive]_vars
  /\ WF_vars(UNCHANGED <<calc, tracker>>
               /\ \E i \in Lanes : HandleMetaStore(i))
  /\ WF_vars(UNCHANGED <<calc, tracker>>
               /\ \E i \in Lanes, soon \in BOOLEAN, build \in {"on", "off"} :
                    HandleBatch(i, soon, build))
  /\ WF_vars(UNCHANGED <<calc, tracker>>
               /\ \E i \in Lanes, build \in {"on", "off"} :
                    HandleReply(i, build))
  /\ WF_vars(UNCHANGED <<calc, tracker>> /\ StoreAdd)

\* a character that is no digit
Junk == 10

\* what a state file may hold: a number, nothing, or text that is no number
Contents == {<<3>>, <<>>, <<Junk>>, <<1, Junk>>}

\* the text of a state file is not a decimal integer
Malformed(text) ==
  text = <<>> \/ \E j \in 1..Len(text) : ~IsDigit(text[j])

\* the importer's directory is found with files written by someone else
Provision(i, available, next) ==
  /\ status[i] = "off"
  /\ starts[i] = 0
  /\ disk[i] = NoDir
  /\ disk' = [disk EXCEPT ![i] =
       [exists |-> TRUE, available |-> available, next |-> next]]
  /\ UNCHANGED <<assertions, active, status, ends, state, awaiting_n,
                 mailbox, starts, store_up, store_id, store_queue, archive,
                 index, signals, stamped, granted, last, n_events,
                 down_seen>>

\* one importer started once on a directory with any content
NextFiles ==
  /\ UNCHANGED <<calc, tracker>>
  /\ \/ \E i \in active, available \in Contents, next \in Contents :
          Provision(i, available, next)
     \/ \E i \in active, bs \in BatchSizes : StartOnce(i, bs)
     \/ \E i \in active : HandleMetaStore(i)
     \/ \E i \in active, soon \in BOOLEAN, build \in {"on", "off"} :
          HandleBatch(i, soon, build)
     \/ \E i \in active, build \in {"on", "off"} : HandleReply(i, build)
     \/ \E i \in active, k \in 1..MaxBatch : SendEvents(i, k)
     \/ \E i \in active : SendMetaStore(i)
     \/ StoreAdd

SpecFiles == Init /\ [][NextFiles]_vars

\* =============================================================== bit engine
\* word<T>: a machine word of WordWidth bits, an integer in 0..all
all == 2^WordWidth - 1
none == 0
\* size_type is as wide as event_id and count; npos is its all-ones value
npos == Modulus - 1

\* bit j of word x, counting from the LSB (word::test)
test(x, j) == (x \div 2^j) % 2 = 1

\* the n least-significant bits set (n < width)
lsb_mask(n) == 2^n - 1

\* the n least-significant bits set (n <= width)
lsb_fill(n) == 2^n - 1

\* x & lsb_fill(n)
low_bits(x, n) == x % (lsb_fill(n) + 1)

\* the word whose bit j is f(bit j of x, bit j of y)
RECURSIVE bitwise(_, _, _, _)
bitwise(f, x, y, j) ==
  IF j = WordWidth THEN 0
  ELSE (IF f[test(x, j)][test(y, j)] THEN 2^j ELSE 0) + bitwise(f, x, y, j + 1)

\* the block-wise lambdas of bitmap_and, _or, _xor, _nand, _nor
Operations == {"and", "or", "xor", "nand", "nor"}

operation(name) ==
  [x \in BOOLEAN |-> [y \in BOOLEAN |->
     CASE name = "and" -> x /\ y
       [] name = "or" -> x \/ y
       [] name = "xor" -> x # y
       [] name = "nand" -> x /\ ~y
       [] name = "nor" -> x \/ ~y]]

op(name, x, y) == bitwise(operation(name), x, y, 0)

\* the flags <<FillLHS, FillRHS>> an operator instantiates bitmap_apply with
fill_flags(name) ==
  CASE name = "and" -> <<FALSE, FALSE>>
    [] name = "or" -> <<TRUE, TRUE>>
    [] name = "xor" -> <<TRUE, TRUE>>
    [] name = "nand" -> <<TRUE, FALSE>>
    [] name = "nor" -> <<TRUE, TRUE>>

RECURSIVE popcount(_)
popcount(x) == IF x = 0 THEN 0 ELSE (x % 2) + popcount(x \div 2)

all_or_none(x) == x = all \/ x = none

\* all_or_none(x, n): the n least-significant bits of x (all of its bits
\* when n is not below the width) are all 0 or all 1
all_or_none_n(x, n) ==
  IF n >= WordWidth THEN all_or_none(x)
  ELSE x % 2^n = 0 \/ x % 2^n = lsb_mask(n)

\* ------------------------------------------------------------------- bits
\* bits<T>{x, n}: data masked to n bits when n is below the word width
mask(x, n) == IF n < WordWidth THEN x % 2^n ELSE x

bits(x, n) == [data |-> mask(x, n), size |-> n]

homogeneous(b) ==
  IF b.size = WordWidth THEN all_or_none(b.data)
  ELSE all_or_none_n(b.data, b.size)

\* a count that takes every block for a literal
count_popcount(b) == popcount(b.data)

\* bits::count
count(b) ==
  IF b.size <= WordWidth /\ b.data > 0 THEN popcount(b.data)
  ELSE IF b.data = all THEN b.size ELSE 0

\* ~x on a word
complement(x) == all - x

\* word::count_trailing_zeros(x) and word::count_leading_zeros(x) for x != 0
count_trailing_zeros(x) ==
  CHOOSE j \in 0..(WordWidth - 1) :
    test(x, j) /\ \A l \in 0..(j - 1) : ~test(x, l)

count_leading_zeros(x) ==
  WordWidth - 1 - (CHOOSE j \in 0..(WordWidth - 1) :
                     test(x, j) /\ \A l \in (j + 1)..(WordWidth - 1) :
                                      ~test(x, l))

\* bits::find_first<Bit>
find_first(Bit, b) ==
  IF b.size > WordWidth
  THEN (IF (IF Bit THEN b.data ELSE complement(b.data)) = all
        THEN 0 ELSE npos)
  ELSE IF (IF Bit THEN b.data ELSE complement(b.data)) = none THEN npos
  ELSE count_trailing_zeros(IF Bit THEN b.data ELSE complement(b.data))

\* bits::find_last<Bit>
find_last(Bit, b) ==
  IF b.size > WordWidth
  THEN (IF (IF Bit THEN b.data ELSE complement(b.data)) = all
        THEN b.size - 1 ELSE npos)
  ELSE IF (IF Bit THEN b.data ELSE complement(b.data)) = none THEN npos
  ELSE WordWidth
         - count_leading_zeros(IF Bit THEN b.data ELSE complement(b.data)) - 1

\* bit i of a block (bits::operator[] as the data model defines it)
block_bit(b, i) == IF b.size > WordWidth THEN b.data # 0 ELSE test(b.data, i)

\* ----------------------------------------------------------------- bitmap
\* a bitmap is the sequence of blocks its bit_range yields
is_fill(b) == homogeneous(b) /\ b.size >= WordWidth

RECURSIVE size(_)
size(bm) == IF bm = <<>> THEN 0 ELSE Head(bm).size + size(Tail(bm))

\* the bits of a bitmap, first position first
RECURSIVE Bits(_)
Bits(bm) ==
  IF bm = <<>> THEN <<>>
  ELSE [j \in 1..Head(bm).size |-> block_bit(Head(bm), j - 1)]
         \o Bits(Tail(bm))

\* a block becomes the trailing block: fills of one value coalesce
push(bm, blk) ==
  LET used == Len(bm)
  IN IF used > 0 /\ is_fill(bm[used]) /\ is_fill(blk)
        /\ (bm[used].data # 0) = (blk.data # 0)
     THEN [bm EXCEPT ![used] =
             [data |-> blk.data, size |-> bm[used].size + blk.size]]
     ELSE Append(bm, blk)

\* the first k bits of literal x go into the trailing literal (size < width)
pack(bm, x, k) ==
  LET used == Len(bm)
      back == bm[used]
  IN push(SubSeq(bm, 1, used - 1),
          [data |-> back.data + (x % 2^k) * 2^back.size,
           size |-> back.size + k])

room(bm) ==
  IF bm # <<>> /\ bm[Len(bm)].size < WordWidth
  THEN WordWidth - bm[Len(bm)].size ELSE 0

\* append_bits(b, n): n copies of bit b
RECURSIVE append_bits(_, _, _)
append_bits(bm, b, n) ==
  LET k == IF n < room(bm) THEN n ELSE room(bm)
  IN IF n = 0 THEN bm
     ELSE IF k > 0 THEN
       append_bits(pack(bm, IF b THEN lsb_mask(k) ELSE 0, k), b, n - k)
     ELSE IF n >= WordWidth THEN
       push(bm, [data |-> IF b THEN all ELSE none, size |-> n])
     ELSE
       push(bm, [data |-> IF b THEN lsb_mask(n) ELSE 0, size |-> n])

\* append_block(w, n): the n least-significant bits of w as a literal
append_block(bm, w, n) ==
  LET x == w % 2^n
      k == IF n < room(bm) THEN n ELSE room(bm)
  IN IF k = 0 THEN push(bm, [data |-> x, size |-> n])
     ELSE IF k = n THEN pack(bm, x, k)
     ELSE push(pack(bm, x, k), [data |-> x \div 2^k, size |-> n - k])

\* size_type subtraction
minus(a, b) == (a - b + Modulus) % Modulus

min(a, b) == IF a < b THEN a ELSE b
max(a, b) == IF a < b THEN b ELSE a

\* it != end for an iterator `it` at block pos of a bit_range: the end
\* iterators of all bit_ranges compare equal, an iterator becomes the end
\* iterator when its range is done
not_end(range, pos) == pos <= Len(range)

\* an advance that moves to the next block whatever the counter reads
advance_always(range, s_pos, s_bits) ==
  IF not_end(range, s_pos + 1)
  THEN [pos |-> s_pos + 1, bits |-> range[s_pos + 1].size]
  ELSE [pos |-> s_pos + 1, bits |-> 0]

\* remaining bits after `if (bits == 0 && ++begin != end) bits = begin->size()`
advance(range, s_pos, s_bits) ==
  IF s_bits # 0 THEN [pos |-> s_pos, bits |-> s_bits]
  ELSE IF not_end(range, s_pos + 1)
    THEN [pos |-> s_pos + 1, bits |-> range[s_pos + 1].size]
    ELSE [pos |-> s_pos + 1, bits |-> 0]

\* the main loop of bitmap_apply (lines 222-256); rounds logs each iteration:
\* the blocks it read, the counters its branch left and the blocks it moved to
RECURSIVE apply_loop(_, _, _, _)
apply_loop(name, lhs, rhs, s) ==
  IF ~(not_end(lhs, s.l) /\ not_end(rhs, s.r)) THEN s
  ELSE
    LET lb == lhs[s.l]
        rb == rhs[s.r]
        both == is_fill(lb) /\ is_fill(rb)
        min_bits == min(s.lhs_bits, s.rhs_bits)
        t == IF both THEN
               [s EXCEPT
                  !.result = append_bits(@, op(name, lb.data, rb.data) # 0,
                                         min_bits),
                  !.lhs_bits = minus(@, min_bits),
                  !.rhs_bits = minus(@, min_bits),
                  !.asserts = @ /\ all_or_none(op(name, lb.data, rb.data))]
             ELSE IF is_fill(lb) THEN
               [s EXCEPT
                  !.result = append_block(@,
                     op(name, lb.data, low_bits(rb.data, s.rhs_bits)),
                     WordWidth),
                  !.underflow = @ \/ s.lhs_bits < WordWidth,
                  !.lhs_bits = minus(@, WordWidth),
                  !.rhs_bits = 0,
                  !.asserts = @ /\ s.rhs_bits > 0 /\ s.rhs_bits <= WordWidth]
             ELSE IF is_fill(rb) THEN
               [s EXCEPT
                  !.result = append_block(@,
                     op(name, low_bits(lb.data, s.lhs_bits), rb.data),
                     WordWidth),
                  !.underflow = @ \/ s.rhs_bits < WordWidth,
                  !.rhs_bits = minus(@, WordWidth),
                  !.lhs_bits = 0,
                  !.asserts = @ /\ s.lhs_bits > 0 /\ s.lhs_bits <= WordWidth]
             ELSE
               [s EXCEPT
                  !.result = append_block(@,
                     op(name, low_bits(lb.data, s.lhs_bits),
                              low_bits(rb.data, s.rhs_bits)),
                     max(s.lhs_bits, s.rhs_bits)),
                  !.lhs_bits = 0,
                  !.rhs_bits = 0]
        moved(u, nl, nr) ==
          [u EXCEPT !.l = nl.pos, !.lhs_bits = nl.bits,
                    !.r = nr.pos, !.rhs_bits = nr.bits,
                    !.rounds = Append(@,
                       [l |-> s.l, r |-> s.r,
                        lhs_bits |-> u.lhs_bits, rhs_bits |-> u.rhs_bits,
                        next_l |-> nl.pos, next_r |-> nr.pos])]
        advanced(u) == moved(u, advance(lhs, u.l, u.lhs_bits),
                                advance(rhs, u.r, u.rhs_bits))
    IN apply_loop(name, lhs, rhs, advanced(t))

\* while (begin != end) of the Fill branches (lines 258-266, 269-277):
\* the rest of `range` from block pos on, `left` bits of the first one
RECURSIVE fill_rest(_, _, _, _)
fill_rest(range, pos, left, result) ==
  IF ~not_end(range, pos) THEN result
  ELSE
    LET b == range[pos]
        appended == IF is_fill(b) THEN append_bits(result, b.data # 0, left)
                    ELSE append_block(result, b.data, b.size)
    IN fill_rest(range, pos + 1,
                 IF not_end(range, pos + 1) THEN range[pos + 1].size ELSE left,
                 appended)

\* bitmap_apply<FillLHS, FillRHS>(lhs, rhs, op): the bitmap returned, whether
\* a remaining-bit counter went below zero, whether the assertions of the
\* loop held, whether the final one (max_size >= result.size()) did, and the
\* iterations of the main loop
bitmap_apply(FillLHS, FillRHS, name, lhs, rhs) ==
  IF lhs = <<>> /\ rhs = <<>> THEN
    [result |-> <<>>, underflow |-> FALSE, asserts |-> TRUE, fits |-> TRUE,
     rounds |-> <<>>]
  ELSE IF lhs = <<>> THEN
    [result |-> rhs, underflow |-> FALSE, asserts |-> TRUE, fits |-> TRUE,
     rounds |-> <<>>]
  ELSE IF rhs = <<>> THEN
    [result |-> lhs, underflow |-> FALSE, asserts |-> TRUE, fits |-> TRUE,
     rounds |-> <<>>]
  ELSE
    LET s == apply_loop(name, lhs, rhs,
               [l |-> 1, r |-> 1, lhs_bits |-> lhs[1].size,
                rhs_bits |-> rhs[1].size, result |-> <<>>,
                underflow |-> FALSE, asserts |-> TRUE, rounds |-> <<>>])
        with_lhs == IF FillLHS THEN fill_rest(lhs, s.l, s.lhs_bits, s.result)
                    ELSE s.result
        with_rhs == IF FillRHS THEN fill_rest(rhs, s.r, s.rhs_bits, with_lhs)
                    ELSE with_lhs
        max_size == max(size(lhs), size(rhs))
    IN [result |-> append_bits(with_rhs, FALSE,
                               minus(max_size, size(with_rhs) % Modulus)),
        underflow |-> s.underflow,
        asserts |-> s.asserts,
        fits |-> max_size >= size(with_rhs),
        rounds |-> s.rounds]

bitmap_and(lhs, rhs) == bitmap_apply(FALSE, FALSE, "and", lhs, rhs)
bitmap_or(lhs, rhs) == bitmap_apply(TRUE, TRUE, "or", lhs, rhs)
bitmap_xor(lhs, rhs) == bitmap_apply(TRUE, TRUE, "xor", lhs, rhs)
bitmap_nand(lhs, rhs) == bitmap_apply(TRUE, FALSE, "nand", lhs, rhs)
bitmap_nor(lhs, rhs) == bitmap_apply(TRUE, TRUE, "nor", lhs, rhs)

\* rank<Bit>(bm, i), the loop of lines 337-348 from block pos on, n bits and
\* result counted so far
RECURSIVE rank_loop(_, _, _, _, _, _)
rank_loop(Bit, bm, i, pos, n, result) ==
  IF pos > Len(bm) THEN result
  ELSE
    LET b == bm[pos]
        cnt == count(b)
        sum == result + (IF Bit THEN cnt ELSE b.size - cnt)
        sz == i - n + 1
        last_ == count(bits(b.data, sz))
    IN IF i >= n /\ i < n + b.size
       THEN sum - (IF Bit THEN cnt - last_
                   ELSE b.size - cnt - (sz - last_))
       ELSE rank_loop(Bit, bm, i, pos + 1, n + b.size, sum)

\* rank<Bit>(bm, i) for i < bm.size()
rank(Bit, bm, i) ==
  IF bm = <<>> THEN 0
  ELSE rank_loop(Bit, bm, IF i = 0 THEN size(bm) - 1 ELSE i, 1, 0, 0)

\* the for loop of lines 369-372: position of the bit that makes cum reach
\* i, from bit j of block b on; npos if the block has none
RECURSIVE scan(_, _, _, _, _)
scan(Bit, b, cum, i, j) ==
  IF j >= b.size THEN npos
  ELSE IF test(b.data, j) = Bit
    THEN (IF cum + 1 = i THEN j ELSE scan(Bit, b, cum + 1, i, j + 1))
    ELSE scan(Bit, b, cum, i, j + 1)

\* number of bits of value Bit among the first j bits of literal b
seen(Bit, b, j) == Cardinality({l \in 0..(j - 1) : test(b.data, l) = Bit})

\* select<Bit>(bm, i), the loop of lines 363-376 from block pos on
RECURSIVE select_loop(_, _, _, _, _, _)
select_loop(Bit, bm, i, pos, cum, n) ==
  IF pos > Len(bm) THEN npos
  ELSE
    LET b == bm[pos]
        cnt == IF Bit THEN count(b) ELSE b.size - count(b)
        crossing == cum + cnt >= i
        found == scan(Bit, b, cum, i, 0)
    IN IF crossing /\ b.size > WordWidth THEN n + (i - cum - 1)
       ELSE IF crossing /\ found # npos THEN n + found
       ELSE select_loop(Bit, bm, i, pos + 1,
                        (IF crossing THEN cum + seen(Bit, b, b.size) ELSE cum)
                          + cnt,
                        n + b.size)

\* select<Bit>(bm, i) for i > 0
select(Bit, bm, i) == select_loop(Bit, bm, i, 1, 0, 0)

\* ------------------------------------------------------- bitmaps as inputs
\* the blocks of the data model: a block longer than a word is homogeneous,
\* a shorter one keeps its data in the least-significant bits
Blocks(longest) ==
  {b \in [data : 0..all, size : 1..longest] :
     /\ b.size < WordWidth => b.data < 2^b.size
     /\ b.size > WordWidth => all_or_none(b.data)}

\* adjacent fills of the same bit value are merged
merged(bm, b) ==
  ~(bm # <<>> /\ is_fill(bm[Len(bm)]) /\ is_fill(b)
      /\ bm[Len(bm)].data = b.data)

\* bm and every bitmap that extends it by at most budget bits
RECURSIVE Extensions(_, _)
Extensions(bm, budget) ==
  {bm} \cup UNION {Extensions(Append(bm, b), budget - b.size) :
                     b \in {c \in Blocks(budget) : merged(bm, c)}}

Bitmaps == Extensions(<<>>, MaxBits)

\* bit i of a bitmap, read as 0 beyond its size
bit_at(bm, i) == IF i < size(bm) THEN Bits(bm)[i + 1] ELSE FALSE

\* --------------------------------------------- calls of the bit algorithms
importer_vars ==
  <<assertions, active, status, ends, state, awaiting_n, mailbox, starts,
    disk, store_up, store_id, store_queue, archive, index, signals, stamped,
    granted, last, n_events, down_seen>>

\* no importer runs
Idle == InitCommon /\ active = {} /\ tracker = NoTracker

\* two bitmaps of the data model, combined by one call of bitmap_apply
InitBitmap ==
  /\ Idle
  /\ calc \in {[fn |-> "input", lhs |-> l, rhs |-> r] : l, r \in Bitmaps}

Apply(name, FillLHS, FillRHS) ==
  /\ calc.fn = "input"
  /\ calc' = [fn |-> "bitmap_apply", name |-> name,
              flags |-> <<FillLHS, FillRHS>>,
              lhs |-> calc.lhs, rhs |-> calc.rhs,
              out |-> bitmap_apply(FillLHS, FillRHS, name, calc.lhs, calc.rhs)]
  /\ UNCHANGED <<importer_vars, tracker>>

NextBitmap ==
  \E name \in Operations, FillLHS, FillRHS \in BOOLEAN :
    Apply(name, FillLHS, FillRHS)

SpecBitmap == InitBitmap /\ [][NextBitmap]_vars

\* one bitmap of the data model, queried by one call of rank or select
InitRank ==
  /\ Idle
  /\ calc \in {[fn |-> "input", bm |-> b] : b \in Bitmaps}

\* rank<true>(bm, i) and rank<false>(bm, i)
Rank(i) ==
  /\ calc.fn = "input"
  /\ i < size(calc.bm)
  /\ calc' = [fn |-> "rank", bm |-> calc.bm, i |-> i,
              out |-> [Bit \in BOOLEAN |-> rank(Bit, calc.bm, i)]]
  /\ UNCHANGED <<importer_vars, tracker>>

Select(Bit, i) ==
  /\ calc.fn = "input"
  /\ calc' = [fn |-> "select", bm |-> calc.bm, bit |-> Bit, i |-> i,
              out |-> select(Bit, calc.bm, i)]
  /\ UNCHANGED <<importer_vars, tracker>>

\* find_first<Bit> and find_last<Bit> of block k of the bitmap
Find(Bit, k) ==
  /\ calc.fn = "input"
  /\ k <= Len(calc.bm)
  /\ calc' = [fn |-> "find", bm |-> calc.bm, bit |-> Bit, b |-> calc.bm[k],
              out |-> [first |-> find_first(Bit, calc.bm[k]),
                       last |-> find_last(Bit, calc.bm[k])]]
  /\ UNCHANGED <<importer_vars, tracker>>

NextRank ==
  \/ \E i \in 0..(MaxBits - 1) : Rank(i)
  \/ \E Bit \in BOOLEAN, i \in 1..(MaxBits + 1) : Select(Bit, i)
  \/ \E Bit \in BOOLEAN, k \in 1..MaxBits : Find(Bit, k)

SpecRank == InitRank /\ [][NextRank]_vars

Bitmaps3 == Extensions(<<>>, MaxBits3)
ShortBitmaps3 == Extensions(<<>>, MaxBits3 - 1)

\* three bitmaps of the data model (the first one bit shorter than the
\* others may be), combined in both orders and both groupings by one of
\* bitmap_and, bitmap_or, bitmap_xor
InitAlgebra ==
  /\ Idle
  /\ calc \in {[fn |-> "input", lhs |-> a, rhs |-> b, third |-> c] :
                 a \in ShortBitmaps3, b \in Bitmaps3, c \in Bitmaps3}

\* bitmap_and, bitmap_or, bitmap_xor by name: bitmap_apply with the flags
\* and the lambda of that function
combine(name, x, y) ==
  bitmap_apply(fill_flags(name)[1], fill_flags(name)[2], name, x, y)

\* the operands of a combination: a bitmap, or a combination of two operands
leaf(bm) == [leaf |-> TRUE, bm |-> bm]
node(left, right) == [leaf |-> FALSE, left |-> left, right |-> right]

\* the bitmap that the nested calls of `name` written as tree t return
RECURSIVE nested(_, _)
nested(name, t) ==
  IF t.leaf THEN t.bm
  ELSE combine(name, nested(name, t.left), nested(name, t.right)).result

\* op(A, B), op(B, A), op(op(A, B), C) and op(A, op(B, C))
groupings(A, B, C) ==
  [ab |-> node(leaf(A), leaf(B)),
   ba |-> node(leaf(B), leaf(A)),
   ab_c |-> node(node(leaf(A), leaf(B)), leaf(C)),
   a_bc |-> node(leaf(A), node(leaf(B), leaf(C)))]

Regroup(name) ==
  /\ calc.fn = "input"
  /\ calc' = [fn |-> "regroup", name |-> name,
              lhs |-> calc.lhs, rhs |-> calc.rhs, third |-> calc.third,
              out |-> [g \in {"ab", "ba", "ab_c", "a_bc"} |->
                         nested(name,
                                groupings(calc.lhs, calc.rhs, calc.third)[g])]]
  /\ UNCHANGED <<importer_vars, tracker>>

NextAlgebra == \E name \in {"and", "or", "xor"} : Regroup(name)

SpecAlgebra == InitAlgebra /\ [][NextAlgebra]_vars

\* ================================================================== tracker
\* (vast/actor/tracker: at_down and the handlers put and link)
\* the names, actor handles and type strings the tracker is sent
Names == {"a", "b", "c"}
ActorHandles == {1, 2, 3}
TypeArgs == {"importer", "receiver", "archive", "bogus"}

\* the component a type string stands for
component(type) ==
  IF type \in {"importer", "exporter", "receiver", "archive", "index",
               "search"}
  THEN type ELSE "invalid"

\* the handles registered in actors_
Registered == {tracker.actors_[name].actor : name \in DOMAIN tracker.actors_}

\* actors_ with name mapped to entry
emplace(map, name, entry) ==
  [k \in DOMAIN map \cup {name} |-> IF k = name THEN entry ELSE map[k]]

\* a put that answers ok to a re-instantiation without storing the handle
put_keeps_handle(map, type, a, name) ==
  LET c == component(type)
  IN IF c = "invalid" THEN
       [reply |-> "invalid type", actors_ |-> map, monitored |-> FALSE]
     ELSE IF name \notin DOMAIN map THEN
       [reply |-> "ok", actors_ |-> emplace(map, name, [actor |-> a, type |-> c]),
        monitored |-> TRUE]
     ELSE IF map[name].type # c THEN
       [reply |-> "type mismatch", actors_ |-> map, monitored |-> FALSE]
     ELSE IF map[name].actor # invalid_actor THEN
       [reply |-> "duplicate actor", actors_ |-> map, monitored |-> FALSE]
     ELSE
       [reply |-> "ok", actors_ |-> map, monitored |-> TRUE]

\* on(atom("put"), arg_match): the reply and actors_ as it leaves them;
\* monitored: it reached monitor(a)
put(map, type, a, name) ==
  LET c == component(type)
  IN IF c = "invalid" THEN
       [reply |-> "invalid type", actors_ |-> map, monitored |-> FALSE]
     ELSE IF name \notin DOMAIN map THEN
       [reply |-> "ok", actors_ |-> emplace(map, name, [actor |-> a, type |-> c]),
        monitored |-> TRUE]
     ELSE IF map[name].type # c THEN
       [reply |-> "type mismatch", actors_ |-> map, monitored |-> FALSE]
     ELSE IF map[name].actor # invalid_actor THEN
       [reply |-> "duplicate actor", actors_ |-> map, monitored |-> FALSE]
     ELSE
       [reply |-> "ok",
        actors_ |-> [map EXCEPT ![name].actor = a], monitored |-> TRUE]

\* on(atom("get"), arg_match): the handle replied, or the error
get(map, name) ==
  IF name \in DOMAIN map THEN map[name].actor ELSE "unknown actor"

\* a component that runs, and is registered nowhere yet, is put under name
Put(type, a, name) ==
  /\ a \notin tracker.dead
  /\ a \notin Registered
  /\ LET out == put(tracker.actors_, type, a, name)
     IN tracker' = [tracker EXCEPT
          !.actors_ = out.actors_,
          !.last = [op |-> "put", name |-> name, reply |-> out.reply,
                    type |-> type, actor |-> a,
                    pre |-> tracker.actors_, topology |-> tracker.topology_,
                    dead |-> tracker.dead]]
  /\ UNCHANGED <<importer_vars, calc>>

\* a link that does not look for the pair in topology_
link_again(map, topology, source, sink) ==
  IF source \notin DOMAIN map THEN "unknown source"
  ELSE IF sink \notin DOMAIN map THEN "unknown sink"
  ELSE IF map[source].type = "importer" THEN
    (IF map[sink].type # "receiver" THEN "sink not a receiver" ELSE "send")
  ELSE IF map[source].type \in {"receiver", "search"} THEN
    (IF map[sink].type \in {"archive", "index"} THEN "send"
     ELSE "sink not archive or index")
  ELSE "invalid source"

\* on(atom("link"), arg_match) up to the sync_send: the reply it returns
\* early, or "send" when it asks the source to add the sink
link(map, topology, source, sink) ==
  IF source \notin DOMAIN map THEN "unknown source"
  ELSE IF sink \notin DOMAIN map THEN "unknown sink"
  ELSE IF \E j \in 1..Len(topology) : topology[j] = <<source, sink>> THEN "ok"
  ELSE IF map[source].type = "importer" THEN
    (IF map[sink].type # "receiver" THEN "sink not a receiver" ELSE "send")
  ELSE IF map[source].type \in {"receiver", "search"} THEN
    (IF map[sink].type \in {"archive", "index"} THEN "send"
     ELSE "sink not archive or index")
  ELSE "invalid source"

\* the link handler; the source it asks is alive and answers ok (what the
\* tracker does when no answer comes lies outside the sources)
Link(source, sink) ==
  /\ LET out == link(tracker.actors_, tracker.topology_, source, sink)
     IN /\ out = "send" =>
             /\ tracker.actors_[source].actor # invalid_actor
             /\ tracker.actors_[source].actor \notin tracker.dead
        /\ tracker' = [tracker EXCEPT
             !.topology_ = IF out = "send" THEN Append(@, <<source, sink>>)
                           ELSE @,
             !.adds = IF out = "send"
                      THEN @ \cup {<<tracker.actors_[source].actor,
                                     tracker.actors_[sink].actor>>}
                      ELSE @,
             !.last = [op |-> "link", name |-> source, sink |-> sink,
                       reply |-> IF out = "send" THEN "ok" ELSE out,
                       topology |-> tracker.topology_]]
  /\ UNCHANGED <<importer_vars, calc>>

\* a registered actor terminates: the tracker, which monitors it, is sent
\* its down_msg
ActorDown(a) ==
  /\ a \in Registered
  /\ a \notin tracker.dead
  /\ tracker' = [tracker EXCEPT !.dead = @ \cup {a},
                                !.downs = Append(@, a)]
  /\ UNCHANGED <<importer_vars, calc>>

\* the names whose entry holds handle a
names_of(map, a) == {name \in DOMAIN map : map[name].actor = a}

\* tracker::at_down: actors_ as it leaves them (one handle is registered
\* under one name at most)
at_down(map, source) ==
  [name \in DOMAIN map |->
     IF map[name].actor = source
     THEN [map[name] EXCEPT !.actor = invalid_actor] ELSE map[name]]

\* the tracker handles the first down_msg of its mailbox
AtDown ==
  /\ tracker.downs # <<>>
  /\ LET source == Head(tracker.downs)
     IN tracker' = [tracker EXCEPT
          !.actors_ = at_down(@, source),
          !.downs = Tail(@),
          !.last = [op |-> "down", source |-> source,
                    names |-> names_of(tracker.actors_, source)]]
  /\ UNCHANGED <<importer_vars, calc>>

InitTracker == Idle /\ calc = NoCalc

NextTracker ==
  \/ \E type \in TypeArgs, a \in ActorHandles, name \in Names : Put(type, a, name)
  \/ \E source \in Names, sink \in Names : Link(source, sink)
  \/ \E a \in ActorHandles : ActorDown(a)
  \/ AtDown

SpecTracker == InitTracker /\ [][NextTracker]_vars

\* ============================================================== query AST
\* (src/vast/detail/ast/query.cc)
ClauseOperators ==
  {"match", "not_match", "equal", "not_equal", "less", "less_equal",
   "greater", "greater_equal", "in", "not_in"}

\* the value types the validator tells apart, and the type of ze::invalid
Types ==
  {"invalid", "uint", "time_point", "string", "regex", "address", "prefix"}

\* an expression: the type of its first literal and the number of operations
\* applied to it
Expressions == [first : Types \ {"invalid"}, rest : 0..1]

\* negate with less and less_equal mapped to each other's entries
negate_swapped(o) ==
  CASE o = "match" -> "not_match"
    [] o = "not_match" -> "match"
    [] o = "equal" -> "not_equal"
    [] o = "not_equal" -> "equal"
    [] o = "less" -> "greater"
    [] o = "less_equal" -> "greater_equal"
    [] o = "greater" -> "less_equal"
    [] o = "greater_equal" -> "less"
    [] o = "in" -> "not_in"
    [] o = "not_in" -> "in"

\* clause_operator negate(clause_operator op), on the ten clause operators
negate(o) ==
  CASE o = "match" -> "not_match"
    [] o = "not_match" -> "match"
    [] o = "equal" -> "not_equal"
    [] o = "not_equal" -> "equal"
    [] o = "less" -> "greater_equal"
    [] o = "less_equal" -> "greater"
    [] o = "greater" -> "less_equal"
    [] o = "greater_equal" -> "less"
    [] o = "in" -> "not_in"
    [] o = "not_in" -> "in"

\* fold: a literal folds to itself; folder::apply is not implemented for any
\* operation: its assert aborts, and with NDEBUG it returns ze::invalid
fold(expr, ndebug) ==
  IF expr.rest = 0 THEN [abort |-> FALSE, which |-> expr.first]
  ELSE [abort |-> ~ndebug, which |-> "invalid"]

\* a validator for type clauses that lets an address be compared with a
\* prefix by any operator
type_clause_any_op(clause, ndebug) ==
  LET rhs == fold(clause.rhs, ndebug)
  IN [abort |-> rhs.abort,
      ok |-> \/ clause.lhs = rhs.which
             \/ /\ clause.lhs = "string"
                /\ clause.op \in {"match", "not_match", "in", "not_in"}
                /\ rhs.which = "regex"
             \/ clause.lhs = "address" /\ rhs.which = "prefix"]

\* validator::operator()(type_clause const&)
type_clause(clause, ndebug) ==
  LET rhs == fold(clause.rhs, ndebug)
  IN [abort |-> rhs.abort,
      ok |-> \/ clause.lhs = rhs.which
             \/ /\ clause.lhs = "string"
                /\ clause.op \in {"match", "not_match", "in", "not_in"}
                /\ rhs.which = "regex"
             \/ /\ clause.lhs = "address" /\ clause.op = "in"
                /\ rhs.which = "prefix"]

\* validator::operator()(tag_clause const&)
tag_clause(clause, ndebug) ==
  LET rhs == fold(clause.rhs, ndebug)
  IN [abort |-> rhs.abort,
      ok |-> \/ clause.lhs = "name" /\ rhs.which \in {"string", "regex"}
             \/ clause.lhs = "time" /\ rhs.which = "time_point"
             \/ clause.lhs = "id" /\ rhs.which = "uint"]

\* validator::operator()(offset_clause const&)
offset_clause(clause, ndebug) ==
  [abort |-> fold(clause.rhs, ndebug).abort, ok |-> clause.offsets # <<>>]

\* validator::operator()(event_clause&): the clause as it leaves it
event_clause(clause) == [clause EXCEPT !.lhs = <<clause.lhs[1], "0">>]

\* the validator applied to one clause (a negated clause is its operand)
validator(clause, ndebug) ==
  LET c == IF clause.kind = "negated" THEN clause.operand ELSE clause
  IN CASE c.kind = "tag" -> tag_clause(c, ndebug)
       [] c.kind = "type" -> type_clause(c, ndebug)
       [] c.kind = "offset" -> offset_clause(c, ndebug)
       [] c.kind = "event" -> [abort |-> FALSE, ok |-> TRUE]

\* validate from clause j of the sequence on: stops at the first clause that
\* fails
RECURSIVE validate_from(_, _, _)
validate_from(clauses, j, ndebug) ==
  IF j > Len(clauses) THEN [abort |-> FALSE, ok |-> TRUE]
  ELSE LET v == validator(clauses[j], ndebug)
       IN IF v.abort \/ ~v.ok THEN v
          ELSE validate_from(clauses, j + 1, ndebug)

\* bool validate(query& q)
validate(q, ndebug) == validate_from(<<q.first>> \o q.rest, 1, ndebug)

\* a clause after the validator has visited it
visited(clause) ==
  IF clause.kind = "event" THEN event_clause(clause)
  ELSE IF clause.kind = "negated" /\ clause.operand.kind = "event"
    THEN [clause EXCEPT !.operand = event_clause(@)]
    ELSE clause

\* the clauses of q as validate leaves them: those up to the first failing
\* one have been visited
RECURSIVE validated(_, _, _)
validated(clauses, j, ndebug) ==
  IF j > Len(clauses) THEN clauses
  ELSE LET v == validator(clauses[j], ndebug)
           seen_j == [clauses EXCEPT ![j] = visited(@)]
       IN IF v.abort \/ ~v.ok THEN seen_j
          ELSE validated(seen_j, j + 1, ndebug)

\* the event schema: the (event, argument) pairs that resolve
Schema == {<<"conn", "duration">>}

EventNames == {<<"conn", "duration">>, <<"conn", "nope">>}

PlainClauses ==
  [kind : {"type"}, lhs : Types \ {"invalid"}, op : ClauseOperators,
   rhs : Expressions]
  \cup [kind : {"tag"}, lhs : {"name", "time", "id"}, op : {"equal", "match"},
        rhs : Expressions]
  \cup [kind : {"offset"}, offsets : {<<>>, <<0>>}, op : {"equal"},
        rhs : [first : {"uint"}, rest : 0..1]]
  \cup [kind : {"event"}, lhs : EventNames, op : {"equal", "less"},
        rhs : [first : {"uint"}, rest : {0}]]

\* the clauses that follow the first one in the queries explored
RestClauses ==
  {[kind |-> "type", lhs |-> "uint", op |-> "less",
    rhs |-> [first |-> "uint", rest |-> 0]],
   [kind |-> "type", lhs |-> "uint", op |-> "less",
    rhs |-> [first |-> "string", rest |-> 0]],
   [kind |-> "negated",
    operand |-> [kind |-> "event", lhs |-> <<"conn", "nope">>,
                 op |-> "equal", rhs |-> [first |-> "uint", rest |-> 0]]]}

RECURSIVE Lists(_, _)
Lists(S, n) ==
  IF n = 0 THEN {<<>>}
  ELSE Lists(S, n - 1)
         \cup {Append(l, x) : l \in Lists(S, n - 1), x \in S}

Queries == [first : PlainClauses, rest : Lists(RestClauses, MaxRest)]

InitQuery ==
  /\ Idle
  /\ calc \in {[fn |-> "input", q |-> q, ndebug |-> b] :
                 q \in Queries, b \in BOOLEAN}

Negate(o) ==
  /\ calc.fn = "input"
  /\ calc' = [fn |-> "negate", op |-> o, out |-> negate(o)]
  /\ UNCHANGED <<importer_vars, tracker>>

Validate ==
  /\ calc.fn = "input"
  /\ calc' = [fn |-> "validate", q |-> calc.q, ndebug |-> calc.ndebug,
              first |-> validator(calc.q.first, calc.ndebug),
              after |-> validated(<<calc.q.first>> \o calc.q.rest, 1,
                                  calc.ndebug),
              out |-> validate(calc.q, calc.ndebug)]
  /\ UNCHANGED <<importer_vars, tracker>>

\* the validator applied to the first clause of the query, a type clause,
\* and to the clause normalization makes of its negation: the same clause
\* with negate(op) for op
ValidateNegation ==
  /\ calc.fn = "input"
  /\ calc.q.first.kind = "type"
  /\ calc' = [fn |-> "negation", q |-> calc.q, ndebug |-> calc.ndebug,
              out |-> [c \in {"plain", "negated"} |->
                         validator(IF c = "plain" THEN calc.q.first
                                   ELSE [calc.q.first EXCEPT !.op = negate(@)],
                                   calc.ndebug)]]
  /\ UNCHANGED <<importer_vars, tracker>>

NextQuery ==
  \/ \E o \in ClauseOperators : Negate(o)
  \/ Validate
  \/ ValidateNegation

SpecQuery == InitQuery /\ [][NextQuery]_vars

\* ================================================================= claims
Stamps == DOMAIN stamped

\* the stampings of the importer that lane i runs now
StampsOf(i) ==
  {a \in Stamps : stamped[a].lane = i /\ stamped[a].start = starts[i]}

\* (next, available) as an importer started on directory d would load it
Persisted(d) ==
  LET st == read_state(importer_state, d)
  IN <<st.next, st.available>>

\* C1: the IDs one importer stamps are pairwise distinct and strictly
\* increasing in stamping order, whatever batches and replenish replies it
\* handles.
C1_IdsStrictlyIncreasing ==
  \A a, b \in Stamps :
    (a < b /\ stamped[a].lane = stamped[b].lane
           /\ stamped[a].start = stamped[b].start)
      => stamped[a].id < stamped[b].id

\* one importer has stamped a batch of its own and, after a replenish reply,
\* a buffered remainder
C1_Witness ==
  \E i \in Lanes :
    /\ last[i].op = "reply"
    /\ last[i].sent # <<>>
    /\ Cardinality(StampsOf(i)) >= 3

\* C2: with several importers on one meta store, every stamped ID lies in a
\* range [x, x+n) the store granted to the stamping importer, and no ID is
\* stamped by two different importers.
C2_StampedWithinGrant ==
  /\ \A a \in Stamps :
       \E g \in granted[stamped[a].lane] :
         g[1] <= stamped[a].id /\ stamped[a].id < g[1] + g[2]
  /\ \A a, b \in Stamps :
       stamped[a].lane # stamped[b].lane => stamped[a].id # stamped[b].id

\* C3: an importer started on the directory of one that stopped without
\* running its exit handler never stamps an ID the earlier one had stamped.
C3_NoReuseAfterCrash ==
  \A a, b \in Stamps :
    (/\ stamped[a].lane = stamped[b].lane
     /\ stamped[a].start < stamped[b].start
     /\ ends[stamped[a].lane][stamped[a].start].why # "exit")
      => stamped[a].id # stamped[b].id

\* C4: a batch of k events handled while 0 < available < k: the first
\* `available` events are shipped with IDs next .. next+available-1, the
\* other k - available events are the remainder, in order, and available
\* becomes 0.
C4_PartialShip ==
  \A i \in Lanes :
    LET pre == last[i].pre
        k == Len(last[i].batch)
    IN (/\ last[i].op = "events"
        /\ pre.meta_store
        /\ 0 < pre.available /\ pre.available < k)
         => /\ last[i].sent =
                 <<stamp(SubSeq(last[i].batch, 1, pre.available), pre.next)>>
            /\ state[i].remainder = SubSeq(last[i].batch, pre.available + 1, k)
            /\ state[i].available = 0

\* C5: no event is ever stamped with ID 0.
C5_NeverZero == \A a \in Stamps : stamped[a].id # 0

\* C6: in every state of a running importer, next + available <= max_event_id.
C6_WithinIdSpace ==
  \A i \in Lanes :
    Alive(i) => state[i].next + state[i].available <= max_event_id

\* C7: after every handler that shipped a batch, and after the exit handler,
\* the persisted (next, available) equals the one in memory.
C7_PersistedAfterShip ==
  \A i \in Lanes :
    (\/ last[i].op = "events" /\ last[i].path = "whole"
     \/ last[i].op = "reply" /\ last[i].sent # <<>>
     \/ last[i].op = "exit")
      => Persisted(disk[i]) = <<state[i].next, state[i].available>>

\* how the importer before the current one of lane i ended
Previous(i) == ends[i][starts[i] - 1]

AfterExit(i) == starts[i] > 1 /\ Previous(i).why = "exit"

C9_BatchHandledAfterDown ==
  \A i \in Lanes :
    (Alive(i) /\ \E j \in 1..Len(mailbox[i]) : mailbox[i][j].late)
      => (status[i] = "running" \/ HasMsg(i, "data"))

\* C9 as amended: an importer that handles a batch while its meta store
\* handle is unset quits with `unspecified`, and stamps and ships nothing.
C9_QuitsWithoutStore ==
  \A i \in Lanes :
    (last[i].op = "events" /\ ~last[i].pre.meta_store)
      => /\ status[i] = "down"
         /\ ends[i][starts[i]].why = "unspecified"
         /\ last[i].sent = <<>>
         /\ state[i] = last[i].pre

\* an importer that had stamped events quit on a batch sent after it had
\* handled the store's DOWN
C9_Witness ==
  \E i \in Lanes :
    /\ last[i].op = "events" /\ last[i].path = "no_store"
    /\ last[i].late
    /\ StampsOf(i) # {}

\* C10: the batches sent to the archive pool are the batches sent to the
\* index pool, in the same order.
C10_SameFanOut == \A i \in Lanes : archive[i] = index[i]

\* two batches have been shipped by one importer
C10_Witness == \E i \in Lanes : Len(archive[i]) >= 2

\* C11: one importer stamps its events in ingest order: events keep their
\* order in stamping and in ID, none is stamped twice, and every event of a
\* batch the importer has handled with a meta store is stamped or waits, in
\* order, in the remainder of the running importer (also when the batch is
\* split into a shipped part and a remainder).
C11_IngestOrder ==
  /\ \A a, b \in Stamps :
       (/\ stamped[a].lane = stamped[b].lane
        /\ stamped[a].start = stamped[b].start
        /\ stamped[a].ev # Husk /\ stamped[b].ev # Husk
        /\ a # b)
         => /\ stamped[a].ev # stamped[b].ev
            /\ stamped[a].ev < stamped[b].ev
                 => (a < b /\ stamped[a].id < stamped[b].id)
  /\ \A i \in Lanes :
       (last[i].op = "events" /\ last[i].pre.meta_store)
         => \A j \in 1..Len(last[i].batch) :
              \/ \E a \in StampsOf(i) : stamped[a].ev = last[i].batch[j]
              \/ /\ Alive(i)
                 /\ \E l \in 1..Len(state[i].remainder) :
                      state[i].remainder[l] = last[i].batch[j]

\* a call of bitmap_and, bitmap_or or bitmap_xor has returned
Combined ==
  /\ calc.fn = "bitmap_apply"
  /\ calc.name \in {"and", "or", "xor"}
  /\ calc.flags = fill_flags(calc.name)

\* C12: for bitmaps L and R of the data model, empty ones included, bit i of
\* bitmap_and / bitmap_or / bitmap_xor (L, R) is op(L[i], R[i]) for every
\* i < max(|L|, |R|), the shorter operand read as 0 beyond its size.
C12_BitwiseContent ==
  Combined =>
    \A i \in 0..(max(size(calc.lhs), size(calc.rhs)) - 1) :
      /\ i < size(calc.out.result)
      /\ bit_at(calc.out.result, i) =
           operation(calc.name)[bit_at(calc.lhs, i)][bit_at(calc.rhs, i)]

\* C13: for non-empty bitmaps of the data model and every combination of
\* fill flags, the result of bitmap_apply has size max(|L|, |R|), lhs_bits
\* and rhs_bits never go below zero and the final assertion holds.
C13_SizeAndCounters ==
  (calc.fn = "bitmap_apply" /\ calc.lhs # <<>> /\ calc.rhs # <<>>)
    => /\ size(calc.out.result) = max(size(calc.lhs), size(calc.rhs))
       /\ ~calc.out.underflow
       /\ calc.out.fits

\* the positions of bm that hold bit value Bit
Positions(bm, Bit) == {p \in 0..(size(bm) - 1) : bit_at(bm, p) = Bit}

\* C14: for a non-empty bitmap bm, a bit value b and 0 <= i < bm.size(),
\* rank<b>(bm, i) is the number of positions p <= i with bm[p] = b.
C14_RankCounts ==
  (calc.fn = "rank" /\ calc.bm # <<>>) =>
    \A Bit \in BOOLEAN :
      calc.out[Bit] =
        Cardinality({p \in Positions(calc.bm, Bit) : p <= calc.i})

\* C15: for every bitmap B and every i < B.size(),
\* rank<true>(B, i) + rank<false>(B, i) = i + 1.
C15_RankSum ==
  calc.fn = "rank" => calc.out[TRUE] + calc.out[FALSE] = calc.i + 1

C17_CommutativeAssociative ==
  calc.fn = "regroup" =>
    /\ Bits(calc.out.ab) = Bits(calc.out.ba)
    /\ Bits(calc.out.ab_c) = Bits(calc.out.a_bc)

\* the negation table of the predicate engine
NegationTable ==
  [o \in ClauseOperators |->
     CASE o = "equal" -> "not_equal"
       [] o = "not_equal" -> "equal"
       [] o = "less" -> "greater_equal"
       [] o = "greater_equal" -> "less"
       [] o = "less_equal" -> "greater"
       [] o = "greater" -> "less_equal"
       [] o = "match" -> "not_match"
       [] o = "not_match" -> "match"
       [] o = "in" -> "not_in"
       [] o = "not_in" -> "in"]

\* C18: negate maps each of the ten clause operators to its entry of the
\* negation table; negate(negate(op)) = op and negate(op) # op.
C18_NegateTable ==
  calc.fn = "negate" =>
    /\ calc.out = NegationTable[calc.op]
    /\ negate(calc.out) = calc.op
    /\ calc.out # calc.op

\* negate has been applied to an ordering operator
C18_Witness ==
  calc.fn = "negate" /\ calc.op = "less_equal" /\ calc.out = "greater"

\* C19: a type clause (lhs_type, op, rhs) passes validation iff the folded
\* rhs has the type lhs_type, or lhs_type is string, rhs a regex and op one
\* of ~, !~, in, !in, or lhs_type is address, rhs a prefix and op is in.
C19_TypeClauseLegality ==
  (calc.fn = "validate" /\ calc.q.first.kind = "type" /\ ~calc.first.abort)
    => LET c == calc.q.first
           rhs == fold(c.rhs, calc.ndebug).which
       IN calc.first.ok <=>
            \/ rhs = c.lhs
            \/ c.lhs = "string" /\ rhs = "regex"
                 /\ c.op \in {"match", "not_match", "in", "not_in"}
            \/ c.lhs = "address" /\ rhs = "prefix" /\ c.op = "in"

\* a type clause that compares an address with a prefix by an operator other
\* than in has been rejected
C19_Witness ==
  /\ calc.fn = "validate"
  /\ calc.q.first.kind = "type"
  /\ calc.q.first.lhs = "address"
  /\ calc.q.first.rhs = [first |-> "prefix", rest |-> 0]
  /\ calc.q.first.op = "equal"
  /\ ~calc.first.ok /\ ~calc.out.ok

\* the event clauses of a query, negated ones included
EventClauses(q) ==
  LET all_clauses == <<q.first>> \o q.rest
  IN {IF all_clauses[j].kind = "negated" THEN all_clauses[j].operand
      ELSE all_clauses[j] : j \in 1..Len(all_clauses)}
       \cap {c \in PlainClauses : c.kind = "event"}

\* C20: validating a query with an event clause whose identifier pair does
\* not resolve against the event schema yields a validation error (validate
\* returns false).
C20_UnresolvedEventClauseFails ==
  (/\ calc.fn = "validate"
   /\ ~calc.out.abort
   /\ \E c \in EventClauses(calc.q) : c.lhs \notin Schema)
    => ~calc.out.ok

\* C21: a query whose first clause (tag, type or offset) has a right-hand
\* expression with an operator applied in it is rejected by validate, and
\* validation does not abort the process.
C21_UnsupportedFoldIsError ==
  (/\ calc.fn = "validate"
   /\ calc.q.first.kind \in {"tag", "type", "offset"}
   /\ calc.q.first.rhs.rest > 0)
    => (~calc.out.abort /\ ~calc.out.ok)

C22_MalformedStateIsFatal ==
  \A i \in Lanes :
    (/\ last[i].op = "start"
     /\ disk[i].exists
     /\ Malformed(disk[i].available) \/ Malformed(disk[i].next))
      => /\ status[i] = "down"
         /\ ends[i][starts[i]].why = "filesystem_error"

\* C23: once the tracker has handled the DOWN of a registered actor, the
\* registry has no entry under that actor's name and the topology has no edge
\* from or to that name.
C23_DownRemovesActorAndEdges ==
  tracker.last.op = "down" =>
    \A name \in tracker.last.names :
      /\ name \notin DOMAIN tracker.actors_
      /\ \A j \in 1..Len(tracker.topology_) :
           tracker.topology_[j][1] # name /\ tracker.topology_[j][2] # name

\* C24: after the handler of an event batch, run by an importer with a meta
\* store, a replenish request has been sent if and only if
\* available < 0.1 * batch_size or the remainder is not empty.
C24_ReplenishDecision ==
  \A i \in Lanes :
    (last[i].op = "events" /\ last[i].pre.meta_store)
      => (last[i].requested <=>
            \/ running_low(state[i].available, last[i].pre.batch_size)
            \/ state[i].remainder # <<>>)

FirstReplenish(i) == starts[i] = 1 /\ granted[i] = {}

\* C26: a replenish doubles batch_size exactly when an earlier replenish of
\* the same importer happened less than 10 s before; the number requested is
\* then the (doubled or unchanged) batch_size, or the size of the remainder
\* if that is larger.  The first replenish of an importer has no earlier one.
C26_DoubledAfterEarlierReplenish ==
  \A i \in Lanes :
    (last[i].op = "events" /\ last[i].requested) =>
      LET earlier == last[i].soon /\ ~FirstReplenish(i)
          batch_size == IF earlier THEN (last[i].pre.batch_size * 2) % Modulus
                        ELSE last[i].pre.batch_size
      IN last[i].n = max(batch_size, Len(state[i].remainder))

\* C27: whenever ship is called, the batch it is handed is no larger than
\* available: the whole incoming batch, the vector handed over on the
\* partial path, and the remainder flushed by the reply handler; and the
\* number of IDs requested is at least the size of the remainder.
C27_ShipWithinAvailable ==
  \A i \in Lanes :
    /\ (last[i].op = "events" /\ last[i].path \in {"whole", "partial"})
         => ship_assertion(last[i].pre, last[i].batch)
    /\ (last[i].op = "reply" /\ last[i].pre.remainder # <<>>)
         => ship_assertion([last[i].pre EXCEPT !.available = last[i].n],
                           last[i].pre.remainder)
    /\ (last[i].op = "events" /\ last[i].requested)
         => last[i].n >= Len(state[i].remainder)

\* the requests of the importer of lane i the meta store has not handled,
\* and the replies to it that it has not handled
Outstanding(i) ==
  Cardinality({j \in 1..Len(store_queue) :
                 store_queue[j].from = i /\ store_queue[j].start = starts[i]})
    + Cardinality({j \in 1..Len(mailbox[i]) : mailbox[i][j].type = "data"})

IsQueued(m) == m.type \in {"events", "meta_store"}

\* the event batches and registrations in the mailbox of lane i
Queued(i) == SelectSeq(mailbox[i], IsQueued)

\* C28: while an importer awaits the reply of a live meta store it has
\* exactly one request outstanding; as long as it awaits, it stamps no event,
\* sends no further request and its queued batches and registrations stay in
\* the mailbox, new ones arriving behind them; a queued message leaves the
\* mailbox of a running importer only as the first of the queue, in its
\* normal behaviour.
C28_SkipsWhileAwaiting ==
  /\ [](\A i \in Lanes :
          (status[i] = "awaiting" /\ store_up) => Outstanding(i) = 1)
  /\ [][\A i \in Lanes :
          /\ (status[i] = "awaiting" /\ status'[i] = "awaiting") =>
               /\ \A a \in DOMAIN stamped' \ DOMAIN stamped :
                    stamped'[a].lane # i
               /\ Outstanding(i)' <= Outstanding(i)
               /\ Len(Queued(i)') >= Len(Queued(i))
               /\ SubSeq(Queued(i)', 1, Len(Queued(i))) = Queued(i)
          /\ (Alive(i) /\ status'[i] \in {"running", "awaiting"}
                /\ starts'[i] = starts[i]) =>
               \/ Len(Queued(i)') >= Len(Queued(i))
                    /\ SubSeq(Queued(i)', 1, Len(Queued(i))) = Queued(i)
               \/ status[i] = "running" /\ Queued(i)' = Tail(Queued(i))
       ]_vars

\* an importer awaits its reply, which has arrived behind two batches that
\* are still queued
C28_Witness ==
  \E i \in Lanes :
    /\ status[i] = "awaiting"
    /\ Len(mailbox[i]) >= 3
    /\ mailbox[i][1].type = "events"
    /\ mailbox[i][2].type = "events"
    /\ mailbox[i][3].type = "data"

\* event e has been stamped and sent to the archive pool and the index pool
Delivered(e) ==
  \E i \in Lanes :
    /\ \E a \in Stamps : stamped[a].ev = e /\ stamped[a].lane = i
    /\ \E j \in 1..Len(archive[i]) :
         \E l \in 1..Len(archive[i][j]) : archive[i][j][l].ev = e
    /\ \E j \in 1..Len(index[i]) :
         \E l \in 1..Len(index[i][j]) : index[i][j][l].ev = e

\* C29: with fair delivery, a meta store that stays registered and answers
\* every request, and no exit message, every event of every batch sent to
\* the importer is eventually stamped and sent to both pools.
C29_EveryEventShipped ==
  \A e \in 1..MaxEvents : (n_events >= e) ~> Delivered(e)

\* C31: find_first<Bit> of a block is the smallest and find_last<Bit> the
\* largest position below the block's size whose bit is Bit, and each is npos
\* exactly when the block has no such position.
C31_FindFirstLast ==
  calc.fn = "find" =>
    LET hits == {p \in 0..(calc.b.size - 1) : block_bit(calc.b, p) = calc.bit}
    IN /\ calc.out.first =
            (IF hits = {} THEN npos
             ELSE CHOOSE p \in hits : \A q \in hits : p <= q)
       /\ calc.out.last =
            (IF hits = {} THEN npos
             ELSE CHOOSE p \in hits : \A q \in hits : p >= q)

\* C32 (as amended): a put with an unknown type, with a name registered
\* under another type, or with a name whose entry still holds a handle is
\* answered with an error and leaves actors_ and topology_ as they were; a
\* put with the type of an entry whose handle at_down has invalidated is
\* answered ok, and get(name) then replies the new actor.
C32_PutReplies ==
  tracker.last.op = "put" =>
    LET pre == tracker.last.pre
        name == tracker.last.name
        c == component(tracker.last.type)
    IN /\ (\/ c = "invalid"
            \/ /\ name \in DOMAIN pre
               /\ pre[name].type # c \/ pre[name].actor # invalid_actor)
           => /\ tracker.last.reply # "ok"
              /\ tracker.actors_ = pre
              /\ tracker.topology_ = tracker.last.topology
       /\ (/\ c # "invalid"
            /\ name \in DOMAIN pre
            /\ pre[name].type = c
            /\ pre[name].actor = invalid_actor)
           => /\ tracker.last.reply = "ok"
              /\ get(tracker.actors_, name) = tracker.last.actor
              /\ tracker.topology_ = tracker.last.topology

\* a name that has an edge is re-instantiated after the DOWN of its actor
C32_Witness ==
  /\ tracker.last.op = "put"
  /\ tracker.last.reply = "ok"
  /\ tracker.last.name \in DOMAIN tracker.last.pre
  /\ tracker.last.pre[tracker.last.name].actor = invalid_actor
  /\ \E j \in 1..Len(tracker.topology_) :
       tracker.topology_[j][1] = tracker.last.name

\* C32 (as stated): the put for a name whose actor has terminated, with the
\* same type, is answered ok and get(name) replies the new actor; the put for
\* a name whose actor runs is answered with an error.
C32_PutAfterTermination ==
  tracker.last.op = "put" =>
    LET pre == tracker.last.pre
        name == tracker.last.name
        c == component(tracker.last.type)
    IN (/\ c # "invalid"
        /\ name \in DOMAIN pre
        /\ pre[name].type = c)
         => IF pre[name].actor = invalid_actor
               \/ pre[name].actor \in tracker.last.dead
            THEN /\ tracker.last.reply = "ok"
                 /\ get(tracker.actors_, name) = tracker.last.actor
            ELSE /\ tracker.last.reply # "ok"
                 /\ tracker.actors_ = pre

\* C33: every pair of topology_ joins two names of actors_ whose types are
\* importer -> receiver or receiver/search -> archive/index, no pair occurs
\* twice, and a link answered with an error leaves topology_ as it was.
C33_TopologyWellFormed ==
  /\ \A j \in 1..Len(tracker.topology_) :
       LET source == tracker.topology_[j][1]
           sink == tracker.topology_[j][2]
       IN /\ source \in DOMAIN tracker.actors_
          /\ sink \in DOMAIN tracker.actors_
          /\ \/ /\ tracker.actors_[source].type = "importer"
                /\ tracker.actors_[sink].type = "receiver"
             \/ /\ tracker.actors_[source].type \in {"receiver", "search"}
                /\ tracker.actors_[sink].type \in {"archive", "index"}
          /\ \A l \in 1..Len(tracker.topology_) :
               tracker.topology_[l] = tracker.topology_[j] => l = j
  /\ (tracker.last.op = "link" /\ tracker.last.reply # "ok")
       => tracker.topology_ = tracker.last.topology

\* a link that exists is requested again, between two linked pairs
C33_Witness ==
  /\ tracker.last.op = "link"
  /\ tracker.last.reply = "ok"
  /\ tracker.topology_ = tracker.last.topology
  /\ Len(tracker.topology_) >= 2

\* C34: when link(source, sink) has been answered ok, and both names have an
\* actor registered, the actor registered under source has been sent an add
\* message that names the actor registered under sink.
C34_LinkedActorsToldOfSink ==
  (/\ tracker.last.op = "link"
   /\ tracker.last.reply = "ok"
   /\ tracker.actors_[tracker.last.name].actor # invalid_actor
   /\ tracker.actors_[tracker.last.sink].actor # invalid_actor)
    => <<tracker.actors_[tracker.last.name].actor,
         tracker.actors_[tracker.last.sink].actor>> \in tracker.adds

\* C35: when the validator accepts a type clause (lhs_type, op, rhs), it
\* accepts the clause (lhs_type, negate(op), rhs) as well.
C35_TypeClauseClosedUnderNegation ==
  (/\ calc.fn = "negation"
   /\ ~calc.out.plain.abort
   /\ calc.out.plain.ok)
    => (~calc.out.negated.abort /\ calc.out.negated.ok)

====
